---- MODULE Spec2Model ----
(***************************************************************************)
(* Model of the logging route service (src/main.go): the Director of the   *)
(* reverse proxy built by NewProxy, the access-controlled transport        *)
(* LoggingRoundTripper.RoundTrip, the allow-list built by main and the     *)
(* latency hook sleep.                                                     *)
(*                                                                         *)
(* Strings are sequences of one-character strings, so that strings.Split,  *)
(* the isIP regular expression, strconv.ParseInt and url.Parse are         *)
(* computed on the characters, as the code computes them.                  *)
(***************************************************************************)
EXTENDS Integers, Sequences, FiniteSets, TLC

\* ------------------------------------------------------------------ bounds
\* longest request or response body, in bytes
MaxBody == 1
\* most entries of an X-Forwarded-For chain
MaxChain == 2

\* the units of concurrency the listener runs request cycles on
Conns == {"c1", "c2"}

\* ----------------------------------------------------------- string values
IP1 == <<"1", ".", "2", ".", "3", ".", "4">>
IP2 == <<"5", ".", "6", ".", "7", ".", "8">>
HostName == <<"h", ".", "i", "o">>
Empty == <<>>

Digits == {"0", "1", "2", "3", "4", "5", "6", "7", "8", "9"}
Letters == {"a", "b", "h", "i", "o", "p", "t", "x"}
CtlChars == {"\n"}

Min(S) == CHOOSE x \in S : \A y \in S : x <= y

\* ------------------------------------------------------- package strings
\* the first index at which sep occurs in s, 0 when it does not
Index(s, sep) ==
  LET I == {i \in 1..(Len(s) - Len(sep) + 1) : SubSeq(s, i, i + Len(sep) - 1) = sep}
  IN IF I = {} THEN 0 ELSE Min(I)

HasPrefix(s, p) == Len(s) >= Len(p) /\ SubSeq(s, 1, Len(p)) = p

\* strings.Split(s, sep), sep non-empty: the pieces between the occurrences
\* of sep, left to right; a string without sep (the empty one too) is one piece
RECURSIVE Split(_, _)
Split(s, sep) ==
  LET i == Index(s, sep)
  IN IF i = 0 THEN <<s>>
     ELSE <<SubSeq(s, 1, i - 1)>> \o Split(SubSeq(s, i + Len(sep), Len(s)), sep)

\* strings.Count(s, ch) for a one-character ch
Count(s, ch) == Cardinality({i \in 1..Len(s) : s[i] = ch})

\* strings.Join(parts, sep): how a chain of addresses is written in a header
RECURSIVE Join(_, _)
Join(parts, sep) ==
  IF Len(parts) = 0 THEN Empty
  ELSE IF Len(parts) = 1 THEN parts[1]
  ELSE parts[1] \o sep \o Join(Tail(parts), sep)

\* ------------------------------------------------------------ main (startup)
\* regexp ^[0-9.]+$ : one or more characters, each a digit or a dot
isIP(v) == Len(v) > 0 /\ \A i \in 1..Len(v) : v[i] \in Digits \cup {"."}

\* net.LookupHost(v) under the resolver answers dns: the addresses of a name
\* that resolves, none (and an error, which main only logs) otherwise
LookupHost(dns, v) == IF v \in DOMAIN dns THEN dns[v] ELSE <<>>

\* the addresses the loop of main appends, for the tokens from index i on
RECURSIVE Resolved(_, _, _)
Resolved(tokens, i, dns) ==
  IF i > Len(tokens) THEN <<>>
  ELSE (IF ~isIP(tokens[i]) \/ Count(tokens[i], ".") # 3
        THEN LookupHost(dns, tokens[i])
        ELSE <<>>) \o Resolved(tokens, i + 1, dns)

\* access_list as main leaves it: nil when ACCESS_LIST is unset or empty,
\* otherwise the tokens between single spaces, each one kept, followed by the
\* addresses the tokens that are no dotted quad resolve to
AccessList(env_limit, dns) ==
  IF Len(env_limit) = 0 THEN <<>>
  ELSE LET tokens == Split(env_limit, <<" ">>)
       IN tokens \o Resolved(tokens, 1, dns)

\* ------------------------------------------------------------------ contains
\* a membership test that takes a prefix of an element for the element
containsPrefix(s, e) == \E i \in 1..Len(s) : HasPrefix(s[i], e)

contains(s, e) == \E i \in 1..Len(s) : s[i] = e

\* --------------------------------------------------------------------- sleep
DigitVal[c \in Digits] ==
  CASE c = "0" -> 0 [] c = "1" -> 1 [] c = "2" -> 2 [] c = "3" -> 3 [] c = "4" -> 4
    [] c = "5" -> 5 [] c = "6" -> 6 [] c = "7" -> 7 [] c = "8" -> 8 [] c = "9" -> 9

RECURSIVE Atoi(_, _)
Atoi(d, base) ==
  IF Len(d) = 0 THEN 0
  ELSE Atoi(SubSeq(d, 1, Len(d) - 1), base) * base + DigitVal[d[Len(d)]]

\* strconv.ParseInt(s, 0, 64) on strings of signs, digits and other
\* characters (no 0x, 0b, 0o prefix and no underscore among the values used):
\* an optional sign, then digits; a leading 0 before more digits means octal
ParseInt(s) ==
  LET signed == Len(s) > 0 /\ s[1] \in {"+", "-"}
      d == IF signed THEN Tail(s) ELSE s
      base == IF Len(d) > 1 /\ d[1] = "0" THEN 8 ELSE 10
      ok == /\ Len(d) > 0
            /\ \A i \in 1..Len(d) : d[i] \in Digits /\ DigitVal[d[i]] < base
  IN IF ~ok THEN [err |-> "invalid syntax", val |-> 0]
     ELSE [err |-> "",
           val |-> IF signed /\ s[1] = "-" THEN 0 - Atoi(d, base) ELSE Atoi(d, base)]

\* sleep(): the error it returns and the milliseconds the caller is held;
\* time.Sleep returns at once for a zero or negative duration
sleep(sleepMilliString) ==
  IF sleepMilliString # Empty
  THEN LET p == ParseInt(sleepMilliString)
       IN IF p.err # "" THEN [err |-> p.err, called |-> FALSE, held |-> 0]
          ELSE [err |-> "", called |-> TRUE, held |-> IF p.val > 0 THEN p.val ELSE 0]
  ELSE [err |-> "", called |-> FALSE, held |-> 0]

\* ----------------------------------------------------------------- url.Parse
URLOf(scheme, opaque, host, path, query) ==
  [Scheme |-> scheme, Opaque |-> opaque, Host |-> host, Path |-> path, RawQuery |-> query]

NoURL == URLOf(Empty, Empty, Empty, Empty, Empty)

ParseError(msg) == [err |-> msg, url |-> NoURL]

\* getScheme: the index of the first character that ends the scheme scan (a
\* colon, a character no scheme holds, or a digit, sign or dot in front), 0 if none
SchemeStop(raw) ==
  LET stop == {i \in 1..Len(raw) :
                 ~(\/ raw[i] \in Letters
                   \/ (i > 1 /\ raw[i] \in Digits \cup {"+", "-", "."}))}
  IN IF stop = {} THEN 0 ELSE Min(stop)

\* the host of an authority: an optional port is a colon and digits only, and
\* a space is no character of a host name
HostError(authority) ==
  LET c == Index(authority, <<":">>)
      port == IF c = 0 THEN Empty ELSE SubSeq(authority, c + 1, Len(authority))
  IN IF \E i \in 1..Len(port) : port[i] \notin Digits THEN "invalid port"
     ELSE IF \E i \in 1..Len(authority) : authority[i] = " "
          THEN "invalid character in host name"
          ELSE ""

\* url.Parse(raw) on strings without '#', '%', '@' and '[': control
\* characters, scheme, query, opaque form, the colon rule for the first
\* segment of a relative path, authority, path
ParseURL(raw) ==
  IF \E i \in 1..Len(raw) : raw[i] \in CtlChars
  THEN ParseError("invalid control character in URL")
  ELSE
  LET k == SchemeStop(raw)
      hasScheme == k > 1 /\ raw[k] = ":"
      scheme == IF hasScheme THEN SubSeq(raw, 1, k - 1) ELSE Empty
      rest0 == IF hasScheme THEN SubSeq(raw, k + 1, Len(raw)) ELSE raw
      q == Index(rest0, <<"?">>)
      rest1 == IF q = 0 THEN rest0 ELSE SubSeq(rest0, 1, q - 1)
      query == IF q = 0 THEN Empty ELSE SubSeq(rest0, q + 1, Len(rest0))
      slash == Index(rest1, <<"/">>)
      segment == IF slash = 0 THEN rest1 ELSE SubSeq(rest1, 1, slash - 1)
      hasAuth == /\ HasPrefix(rest1, <<"/", "/">>)
                 /\ (hasScheme \/ ~HasPrefix(rest1, <<"/", "/", "/">>))
      after == SubSeq(rest1, 3, Len(rest1))
      a == Index(after, <<"/">>)
      authority == IF a = 0 THEN after ELSE SubSeq(after, 1, a - 1)
      path == IF a = 0 THEN Empty ELSE SubSeq(after, a, Len(after))
  IN IF k = 1 /\ raw[1] = ":" THEN ParseError("missing protocol scheme")
     ELSE IF ~HasPrefix(rest1, <<"/">>) /\ hasScheme
     THEN [err |-> "", url |-> URLOf(scheme, rest1, Empty, Empty, query)]
     ELSE IF ~HasPrefix(rest1, <<"/">>) /\ Index(segment, <<":">>) # 0
     THEN ParseError("first path segment in URL cannot contain colon")
     ELSE IF hasAuth
     THEN IF HostError(authority) # "" THEN ParseError(HostError(authority))
          ELSE [err |-> "", url |-> URLOf(scheme, Empty, authority, path, query)]
     ELSE [err |-> "", url |-> URLOf(scheme, Empty, Empty, rest1, query)]

\* ------------------------------------------------------------ body streams
\* a one-shot stream: its bytes, how many were consumed, whether it was
\* closed, and whether reading it to the end fails
Stream(data, failing) == [data |-> data, pos |-> 0, closed |-> FALSE, failing |-> failing]

\* bytes.NewBuffer(body) under ioutil.NopCloser: a fresh stream over body
NewBuffer(body) == Stream(body, FALSE)

\* ioutil.ReadAll(b): the bytes from the current position to the end, and
\* the error met on the way
ReadAll(b) ==
  [bytes |-> IF b.closed THEN Empty ELSE SubSeq(b.data, b.pos + 1, Len(b.data)),
   err |-> IF b.closed THEN "read on closed body"
           ELSE IF b.failing THEN "unexpected EOF" ELSE ""]

\* the stream once ReadAll has run over it
Drained(b) == [b EXCEPT !.pos = Len(b.data)]

\* ------------------------------------------------------------------ inputs
FORWARDED_FOR_HEADER == "X-Forwarded-For"
CF_FORWARDED_URL_HEADER == "X-Cf-Forwarded-Url"
CF_PROXY_SIGNATURE_HEADER == "X-Cf-Proxy-Signature"
HeaderNames == {FORWARDED_FOR_HEADER, CF_FORWARDED_URL_HEADER, CF_PROXY_SIGNATURE_HEADER}

\* header.Get(name): the value of the header, the empty string when absent
Get(header, name) == header[name]

Bytes == {"a", "b"}
Bodies == UNION {[1..n -> Bytes] : n \in 0..MaxBody}

\* "http://b/p?x=1"
AbsURL == <<"h", "t", "t", "p", ":", "/", "/", "b", "/", "p", "?", "x", "=", "1">>
\* ":b"
BadURL == <<":", "b">>
\* "/p"
RelURL == <<"/", "p">>
\* "http://b c"
BadHostURL == <<"h", "t", "t", "p", ":", "/", "/", "b", " ", "c">>
\* the header absent (Get gives the empty string), an absolute URL, a
\* relative one, and two that url.Parse rejects
URLValues == {Empty, AbsURL, RelURL, BadURL, BadHostURL}

Addrs == {IP1, IP2}
Chains == UNION {[1..n -> Addrs] : n \in 0..MaxChain}
\* the chains written with ", " between the entries, one written with a
\* bare comma
\* bare comma, and a host name where an address is expected
XFFValues ==
  {Join(ch, <<",", " ">>) : ch \in Chains} \cup {IP2 \o <<",">> \o IP1, HostName}

Signature == <<"s">>

\* the request as the listener hands it to the proxy: the route service's
\* own URL and host, the three headers, and a body stream (or none)
InboundURL == URLOf(Empty, Empty, Empty, <<"/">>, Empty)
InboundHost == <<"r", "s">>

InboundRequests ==
  {[Method |-> "POST",
    Header |-> (FORWARDED_FOR_HEADER :> x) @@ (CF_FORWARDED_URL_HEADER :> u)
               @@ (CF_PROXY_SIGNATURE_HEADER :> Signature),
    URL |-> InboundURL,
    Host |-> InboundHost,
    hasBody |-> b.hasBody,
    Body |-> b.Body] :
     x \in XFFValues, u \in URLValues,
     b \in {[hasBody |-> FALSE, Body |-> Stream(Empty, FALSE)]}
           \cup {[hasBody |-> TRUE, Body |-> Stream(d, FALSE)] : d \in Bodies}
           \cup {[hasBody |-> TRUE, Body |-> Stream(Empty, TRUE)]}}

\* what the destination can answer
UpstreamHeader == << <<"Content-Type", <<"t">> >> >>
UpstreamResponses ==
  {[StatusCode |-> st, Header |-> UpstreamHeader, Body |-> Stream(d, f)] :
     st \in {200, 404}, d \in Bodies, f \in BOOLEAN}

\* ACCESS_LIST and the resolver's answers
EnvLimitValues == {Empty, IP1, IP1 \o <<" ">>, HostName, IP1 \o <<" ">> \o HostName}
Resolvers == {HostName :> <<IP2>>, HostName :> <<>>}

\* ROUTE_SERVICE_SLEEP_MILLI: unset, "2", "-2", "x"
SleepValues == {Empty, <<"2">>, <<"-", "2">>, <<"x">>}

\* ------------------------------------------------------------------- state
VARIABLES
  env_limit,         \* ACCESS_LIST as main read it
  limit,             \* LoggingRoundTripper.limit
  sleepMilliString,  \* ROUTE_SERVICE_SLEEP_MILLI
  alive,             \* FALSE once log.Fatalln has ended the process
  pc,                \* where each request cycle stands
  inb,               \* the request as it was received
  req,               \* the *http.Request the director and the transport share
  logged,            \* what logRequest wrote for the cycle
  out,               \* the request as the underlying transport was handed it
  up,                \* what the underlying transport gave: a response or an error
  res,               \* the (*http.Response, error) RoundTrip works on and returns
  delivered,         \* what the original caller was sent
  trace              \* the steps of the cycle, in the order the code took them

vars == <<env_limit, limit, sleepMilliString, alive, pc, inb, req, logged, out, up,
          res, delivered, trace>>

NoRequest ==
  [Method |-> "", Header |-> [h \in HeaderNames |-> Empty], URL |-> NoURL,
   Host |-> Empty, hasBody |-> FALSE, Body |-> Stream(Empty, FALSE)]

NoLog == [forwardedFOR |-> Empty, forwardedURL |-> Empty, sigHeader |-> Empty,
          body |-> Empty, headers |-> [h \in HeaderNames |-> Empty]]

NoOut == [calls |-> 0, request |-> NoRequest]

NoUp == [StatusCode |-> 0, Header |-> <<>>, data |-> Empty, err |-> ""]

NoResponse == [isNil |-> TRUE, StatusCode |-> 0, Header |-> <<>>,
               Body |-> Stream(Empty, FALSE), err |-> ""]

NoDelivery == [StatusCode |-> 0, Header |-> <<>>, body |-> Empty]

Init ==
  /\ env_limit \in EnvLimitValues
  /\ \E dns \in Resolvers : limit = AccessList(env_limit, dns)
  /\ sleepMilliString \in SleepValues
  /\ alive = TRUE
  /\ pc = [c \in Conns |-> "idle"]
  /\ inb = [c \in Conns |-> NoRequest]
  /\ req = [c \in Conns |-> NoRequest]
  /\ logged = [c \in Conns |-> NoLog]
  /\ out = [c \in Conns |-> NoOut]
  /\ up = [c \in Conns |-> NoUp]
  /\ res = [c \in Conns |-> NoResponse]
  /\ delivered = [c \in Conns |-> NoDelivery]
  /\ trace = [c \in Conns |-> <<>>]

\* a failure that ends the failing cycle's work only and leaves the process up
FatalRequestOnly(c, step) ==
  /\ alive' = alive
  /\ trace' = [trace EXCEPT ![c] = Append(@, step)]

\* log.Fatalln: the process ends, whatever the other cycles were doing
Fatal(c, step) ==
  /\ alive' = FALSE
  /\ trace' = [trace EXCEPT ![c] = Append(@, step)]

\* the listener accepts a request and the proxy starts its cycle
Receive(c, r) ==
  /\ alive /\ pc[c] = "idle"
  /\ pc' = [pc EXCEPT ![c] = "director"]
  /\ inb' = [inb EXCEPT ![c] = r]
  /\ req' = [req EXCEPT ![c] = r]
  /\ trace' = [trace EXCEPT ![c] = <<"received">>]
  /\ UNCHANGED <<env_limit, limit, sleepMilliString, alive, logged, out, up, res, delivered>>

\* the director reading the body and leaving the consumed stream in place
BufferedNotRestored(r, body) == IF r.hasBody THEN [r EXCEPT !.Body = Drained(@)] ELSE r

\* the request after the director buffered its body: a body is replaced by
\* a fresh stream over the bytes read, no body is left alone
Buffered(r, body) == IF r.hasBody THEN [r EXCEPT !.Body = NewBuffer(body)] ELSE r

\* Director, lines 69-82: the three headers, the body read whole and put
\* back, the log entry
DirectorBuffer(c) ==
  /\ alive /\ pc[c] = "director"
  /\ LET r == req[c]
         rd == IF r.hasBody THEN ReadAll(r.Body) ELSE [bytes |-> Empty, err |-> ""]
     IN IF rd.err # ""
        THEN /\ Fatal(c, "fatal_body")
             /\ UNCHANGED <<pc, req, logged>>
        ELSE /\ req' = [req EXCEPT ![c] = Buffered(r, rd.bytes)]
             /\ logged' = [logged EXCEPT ![c] =
                  [forwardedFOR |-> Get(r.Header, FORWARDED_FOR_HEADER),
                   forwardedURL |-> Get(r.Header, CF_FORWARDED_URL_HEADER),
                   sigHeader |-> Get(r.Header, CF_PROXY_SIGNATURE_HEADER),
                   body |-> rd.bytes,
                   headers |-> r.Header]]
             /\ trace' = [trace EXCEPT ![c] = @ \o <<"read_body", "log_request">>]
             /\ pc' = [pc EXCEPT ![c] = "sleep"]
             /\ UNCHANGED alive
  /\ UNCHANGED <<env_limit, limit, sleepMilliString, inb, out, up, res, delivered>>

\* a director that starts the delay and goes on without waiting for it
DirectorSleepDetached(c) ==
  /\ alive /\ pc[c] = "sleep"
  /\ pc' = [pc EXCEPT ![c] = "parse"]
  /\ trace' = [trace EXCEPT ![c] =
       IF sleep(sleepMilliString).called THEN Append(@, "sleep_begin")
       ELSE Append(@, "sleep_done")]
  /\ UNCHANGED <<env_limit, limit, sleepMilliString, alive, inb, req, logged, out, up, res, delivered>>

\* a delay taken under a lock all cycles share: a cycle waits in front of
\* sleep() while another one is held in it
DirectorSleepLocked(c) ==
  /\ alive /\ pc[c] = "sleep"
  /\ \A d \in Conns \ {c} : pc[d] # "sleeping"
  /\ LET s == sleep(sleepMilliString)
     IN IF s.err # ""
        THEN /\ Fatal(c, "fatal_sleep")
             /\ UNCHANGED pc
        ELSE /\ pc' = [pc EXCEPT ![c] = IF s.held > 0 THEN "sleeping" ELSE "parse"]
             /\ trace' = [trace EXCEPT ![c] =
                  IF s.held > 0 THEN Append(@, "sleep_begin")
                  ELSE IF s.called THEN @ \o <<"sleep_begin", "sleep_done">>
                  ELSE Append(@, "sleep_done")]
             /\ UNCHANGED alive
  /\ UNCHANGED <<env_limit, limit, sleepMilliString, inb, req, logged, out, up, res, delivered>>

\* Director, lines 84-87: sleep() is called; a value that does not parse
\* ends the process, a parsed one holds the cycle in time.Sleep
DirectorSleep(c) ==
  /\ alive /\ pc[c] = "sleep"
  /\ LET s == sleep(sleepMilliString)
     IN IF s.err # ""
        THEN /\ Fatal(c, "fatal_sleep")
             /\ UNCHANGED pc
        ELSE /\ pc' = [pc EXCEPT ![c] = IF s.held > 0 THEN "sleeping" ELSE "parse"]
             /\ trace' = [trace EXCEPT ![c] =
                  IF s.held > 0 THEN Append(@, "sleep_begin")
                  ELSE IF s.called THEN @ \o <<"sleep_begin", "sleep_done">>
                  ELSE Append(@, "sleep_done")]
             /\ UNCHANGED alive
  /\ UNCHANGED <<env_limit, limit, sleepMilliString, inb, req, logged, out, up, res, delivered>>

\* a delay after which the director starts over with the request as received
SleepEndRestart(c) ==
  /\ alive /\ pc[c] = "sleeping"
  /\ pc' = [pc EXCEPT ![c] = "director"]
  /\ req' = [req EXCEPT ![c] = inb[c]]
  /\ trace' = [trace EXCEPT ![c] = <<"received">>]
  /\ UNCHANGED <<env_limit, limit, sleepMilliString, alive, inb, logged, out, up, res, delivered>>

\* time.Sleep returns
SleepEnd(c) ==
  /\ alive /\ pc[c] = "sleeping"
  /\ pc' = [pc EXCEPT ![c] = "parse"]
  /\ trace' = [trace EXCEPT ![c] = Append(@, "sleep_done")]
  /\ UNCHANGED <<env_limit, limit, sleepMilliString, alive, inb, req, logged, out, up, res, delivered>>

\* a rewrite that replaces the headers' forwarding metadata along with the URL
RewrittenStripping(r, url) ==
  [r EXCEPT !.URL = url, !.Host = url.Host, !.Header[FORWARDED_FOR_HEADER] = Empty]

\* url.Parse of each value a request can carry, worked out once
Parsed == [u \in URLValues |-> ParseURL(u)]

\* the request with the parsed URL as its target
Rewritten(r, url) == [r EXCEPT !.URL = url, !.Host = url.Host]

\* Director, lines 90-96: the forwarded URL is parsed and becomes the target
DirectorRewrite(c) ==
  /\ alive /\ pc[c] = "parse"
  /\ LET p == Parsed[Get(req[c].Header, CF_FORWARDED_URL_HEADER)]
     IN IF p.err # ""
        THEN /\ Fatal(c, "fatal_url")
             /\ UNCHANGED <<pc, req>>
        ELSE /\ req' = [req EXCEPT ![c] = Rewritten(@, p.url)]
             /\ trace' = [trace EXCEPT ![c] = @ \o <<"rewrite", "directed">>]
             /\ pc' = [pc EXCEPT ![c] = "roundtrip"]
             /\ UNCHANGED alive
  /\ UNCHANGED <<env_limit, limit, sleepMilliString, inb, logged, out, up, res, delivered>>

\* ---------------------------------------------------------------- RoundTrip
\* line 144: the first piece of the chain split at ", "
RemoteIP(forwardedFOR) == Split(forwardedFOR, <<",", " ">>)[1]

\* the denial condition without the test that the list is non-empty
DeniesEmptyToo(lim, remoteIP) == ~contains(lim, remoteIP)

\* line 149: the condition of the denial branch
Denies(lim, remoteIP) == Len(lim) > 0 /\ ~contains(lim, remoteIP)

Forbidden == <<"F", "o", "r", "b", "i", "d", "d", "e", "n">>

\* lines 152-156: the response of the denial branch, returned with a nil error
DenialResponse ==
  [isNil |-> FALSE, StatusCode |-> 403, Header |-> <<>>, Body |-> NewBuffer(Forbidden),
   err |-> ""]

\* a denial branch without its return: the denial is built and the
\* underlying transport is called all the same
RoundTripDecideFallThrough(c) ==
  /\ alive /\ pc[c] = "roundtrip"
  /\ LET denied == Denies(limit, RemoteIP(Get(req[c].Header, FORWARDED_FOR_HEADER)))
     IN /\ res' = [res EXCEPT ![c] = IF denied THEN DenialResponse ELSE @]
        /\ trace' = [trace EXCEPT ![c] =
             @ \o (IF denied THEN <<"decide", "deny">> ELSE <<"decide", "allow">>)
               \o <<"transport_call">>]
  /\ out' = [out EXCEPT ![c] = [calls |-> @.calls + 1, request |-> req[c]]]
  /\ pc' = [pc EXCEPT ![c] = "transport"]
  /\ UNCHANGED <<env_limit, limit, sleepMilliString, alive, inb, req, logged, up, delivered>>

\* a transport that adds every address it lets through to its list
RoundTripDecideLearning(c) ==
  /\ alive /\ pc[c] = "roundtrip"
  /\ LET remoteIP == RemoteIP(Get(req[c].Header, FORWARDED_FOR_HEADER))
     IN IF Denies(limit, remoteIP)
        THEN /\ res' = [res EXCEPT ![c] = DenialResponse]
             /\ trace' = [trace EXCEPT ![c] = @ \o <<"decide", "deny", "return">>]
             /\ pc' = [pc EXCEPT ![c] = "returned"]
             /\ UNCHANGED <<out, limit>>
        ELSE /\ out' = [out EXCEPT ![c] = [calls |-> @.calls + 1, request |-> req[c]]]
             /\ trace' = [trace EXCEPT ![c] = @ \o <<"decide", "allow", "transport_call">>]
             /\ pc' = [pc EXCEPT ![c] = "transport"]
             /\ limit' = IF contains(limit, remoteIP) THEN limit ELSE Append(limit, remoteIP)
             /\ UNCHANGED res
  /\ UNCHANGED <<env_limit, sleepMilliString, alive, inb, req, logged, up, delivered>>

\* lines 143-160: the claimed address, the decision, and either the denial
\* returned or the underlying transport called with the request as it is
RoundTripDecide(c) ==
  /\ alive /\ pc[c] = "roundtrip"
  /\ LET remoteIP == RemoteIP(Get(req[c].Header, FORWARDED_FOR_HEADER))
     IN IF Denies(limit, remoteIP)
        THEN /\ res' = [res EXCEPT ![c] = DenialResponse]
             /\ trace' = [trace EXCEPT ![c] = @ \o <<"decide", "deny", "return">>]
             /\ pc' = [pc EXCEPT ![c] = "returned"]
             /\ UNCHANGED out
        ELSE /\ out' = [out EXCEPT ![c] = [calls |-> @.calls + 1, request |-> req[c]]]
             /\ trace' = [trace EXCEPT ![c] = @ \o <<"decide", "allow", "transport_call">>]
             /\ pc' = [pc EXCEPT ![c] = "transport"]
             /\ UNCHANGED res
  /\ UNCHANGED <<env_limit, limit, sleepMilliString, alive, inb, req, logged, up, delivered>>

\* http.Transport.RoundTrip reaches the network only for an http or https
\* URL with a host; any other request is refused with an error at once
Routable(url) ==
  /\ url.Scheme \in {<<"h", "t", "t", "p">>, <<"h", "t", "t", "p", "s">>}
  /\ url.Host # Empty

\* a transport error masked by a synthetic response
TransportFailureMasked(e) ==
  [isNil |-> FALSE, StatusCode |-> 502, Header |-> <<>>, Body |-> NewBuffer(Empty),
   err |-> ""]

\* lines 161-163: the value RoundTrip returns on a transport error
TransportFailure(e) == [NoResponse EXCEPT !.err = e]

\* lines 160-163: the underlying transport returns; an error is returned
\* to the caller as it is, a response goes on to be read
TransportReturn(c) ==
  /\ alive /\ pc[c] = "transport"
  /\ \/ /\ ~Routable(out[c].request.URL)
        /\ up' = [up EXCEPT ![c].err = "unsupported protocol scheme"]
        /\ res' = [res EXCEPT ![c] = TransportFailure("unsupported protocol scheme")]
        /\ trace' = [trace EXCEPT ![c] = @ \o <<"transport_error", "return">>]
        /\ pc' = [pc EXCEPT ![c] = "returned"]
        /\ UNCHANGED req
     \/ /\ Routable(out[c].request.URL)
        /\ \E e \in {"connection refused", "timeout"} :
             /\ up' = [up EXCEPT ![c].err = e]
             /\ res' = [res EXCEPT ![c] = TransportFailure(e)]
        /\ trace' = [trace EXCEPT ![c] = @ \o <<"net_io", "transport_error", "return">>]
        /\ pc' = [pc EXCEPT ![c] = "returned"]
        /\ UNCHANGED req
     \/ /\ Routable(out[c].request.URL)
        /\ \E u \in UpstreamResponses :
             /\ up' = [up EXCEPT ![c] = [StatusCode |-> u.StatusCode, Header |-> u.Header,
                                         data |-> u.Body.data, err |-> ""]]
             /\ res' = [res EXCEPT ![c] = [isNil |-> FALSE, StatusCode |-> u.StatusCode,
                                           Header |-> u.Header, Body |-> u.Body, err |-> ""]]
        \* the transport has sent the request's body
        /\ req' = [req EXCEPT ![c].Body = Drained(@)]
        /\ trace' = [trace EXCEPT ![c] = @ \o <<"net_io", "transport_response">>]
        /\ pc' = [pc EXCEPT ![c] = "readresp"]
  /\ UNCHANGED <<env_limit, limit, sleepMilliString, alive, inb, logged, out, delivered>>

\* the response left with the stream that was read to its end
RestoredNot(r, body) == [r EXCEPT !.Body = Drained(@)]

\* line 174: the response with a fresh stream over the bytes read from it
Restored(r, body) == [r EXCEPT !.Body = NewBuffer(body)]

\* lines 165-178: the response body read whole, logged and put back
ReadResponse(c) ==
  /\ alive /\ pc[c] = "readresp"
  /\ LET rd == ReadAll(res[c].Body)
     IN IF rd.err # ""
        THEN /\ Fatal(c, "fatal_response")
             /\ UNCHANGED <<pc, res>>
        ELSE /\ res' = [res EXCEPT ![c] = Restored(@, rd.bytes)]
             /\ trace' = [trace EXCEPT ![c] = @ \o <<"read_response", "log_response", "return">>]
             /\ pc' = [pc EXCEPT ![c] = "returned"]
             /\ UNCHANGED alive
  /\ UNCHANGED <<env_limit, limit, sleepMilliString, inb, req, logged, out, up, delivered>>

\* the proxy relays what RoundTrip returned: the response with the bytes its
\* body yields, or 502 for an error
Respond(c) ==
  /\ alive /\ pc[c] = "returned"
  /\ delivered' = [delivered EXCEPT ![c] =
       IF res[c].isNil THEN [StatusCode |-> 502, Header |-> <<>>, body |-> Empty]
       ELSE [StatusCode |-> res[c].StatusCode, Header |-> res[c].Header,
             body |-> ReadAll(res[c].Body).bytes]]
  /\ trace' = [trace EXCEPT ![c] = Append(@, "responded")]
  /\ pc' = [pc EXCEPT ![c] = "responded"]
  /\ UNCHANGED <<env_limit, limit, sleepMilliString, alive, inb, req, logged, out, up, res>>

\* the steps of a request cycle once the request was received
Steps(c) ==
  \/ DirectorBuffer(c)
  \/ DirectorSleep(c)
  \/ SleepEnd(c)
  \/ DirectorRewrite(c)
  \/ RoundTripDecide(c)
  \/ TransportReturn(c)
  \/ ReadResponse(c)
  \/ Respond(c)

\* the cycles of a process that is sent one request: the second unit of
\* concurrency stays idle
Next ==
  \E c \in {"c1"} :
    \/ \E r \in InboundRequests : Receive(c, r)
    \/ Steps(c)

Spec == Init /\ [][Next]_vars

\* the requests sent to a process that serves two at a time
ConcurrentRequests ==
  {r \in InboundRequests :
     /\ r.Header[FORWARDED_FOR_HEADER] \in {IP1, IP2}
     /\ r.Header[CF_FORWARDED_URL_HEADER] \in {AbsURL, BadURL}
     /\ r.hasBody /\ (r.Body.failing \/ r.Body.data = <<"a">>)}

\* the cycles of a process that is sent two requests, each on its own unit
\* of concurrency, their steps interleaved in any order
NextConcurrent ==
  \E c \in Conns :
    \/ \E r \in ConcurrentRequests : Receive(c, r)
    \/ Steps(c)

SpecConcurrent == Init /\ [][NextConcurrent]_vars

\* the same process when every cycle that can take its next step eventually
\* takes it: each cycle runs on a goroutine of its own, and the body reads,
\* the delay and the transport call return
SpecFair == SpecConcurrent /\ \A c \in Conns : WF_vars(Steps(c))

\* ================================================================== claims
Has(c, e) == \E i \in 1..Len(trace[c]) : trace[c][i] = e
Pos(c, e) == Min({i \in 1..Len(trace[c]) : trace[c][i] = e})
\* e1 was taken, and taken before e2, whenever e2 was taken
Before(c, e1, e2) == Has(c, e2) => (Has(c, e1) /\ Pos(c, e1) < Pos(c, e2))

\* the leftmost entry of a chain: what stands in front of the first ", "
FirstEntry(x) ==
  LET ends == {i \in 0..Len(x) :
                 i = Len(x) \/ (i + 2 <= Len(x) /\ x[i + 1] = "," /\ x[i + 2] = " ")}
  IN SubSeq(x, 1, Min(ends))

InList(a) == \E i \in DOMAIN limit : limit[i] = a

\* the X-Forwarded-For value RoundTrip reads
Chain(c) == req[c].Header[FORWARDED_FOR_HEADER]

\* C1: a request that reached the decision of RoundTrip is denied exactly when
\* the AllowList is non-empty and the first entry of its chain equals no
\* element of it; a denial is the response 403 "Forbidden" without headers
\* and without error, and the underlying transport is not called for it.
C1_DenyIff ==
  \A c \in Conns :
    Has(c, "decide") =>
      /\ Has(c, "deny") <=> (limit # <<>> /\ ~InList(FirstEntry(Chain(c))))
      /\ Has(c, "deny") =>
           /\ res[c] = [isNil |-> FALSE, StatusCode |-> 403, Header |-> <<>>,
                        Body |-> [data |-> Forbidden, pos |-> 0, closed |-> FALSE,
                                  failing |-> FALSE],
                        err |-> ""]
           /\ out[c].calls = 0
           /\ ~Has(c, "transport_call") /\ ~Has(c, "net_io")
           /\ pc[c] = "responded" =>
                delivered[c] = [StatusCode |-> 403, Header |-> <<>>, body |-> Forbidden]
      /\ ~Has(c, "deny") => out[c].calls = 1

\* a request from an address outside a non-empty AllowList was answered 403
C1_Witness ==
  \E c \in Conns :
    /\ pc[c] = "responded" /\ Has(c, "deny")
    /\ limit # <<>> /\ Chain(c) = IP2 \o <<",", " ">> \o IP1
    /\ delivered[c].StatusCode = 403

\* C2: while the AllowList is empty no request is denied, and every request
\* that reached the decision was handed to the underlying transport,
\* whatever its chain.
C2_EmptyAllowsAll ==
  limit = <<>> =>
    \A c \in Conns :
      /\ ~Has(c, "deny")
      /\ res[c].StatusCode # 403 /\ delivered[c].StatusCode # 403
      /\ Has(c, "decide") => (Has(c, "transport_call") /\ out[c].calls = 1)

\* with an empty AllowList a request without X-Forwarded-For was forwarded
C2_Witness ==
  \E c \in Conns :
    /\ limit = <<>> /\ Chain(c) = Empty
    /\ Has(c, "transport_call") /\ out[c].calls = 1

\* C3: the decision rests on the leftmost entry of the chain alone: a chain
\* whose first entry is in the AllowList is allowed, one whose first entry is
\* not in a non-empty AllowList is denied, and with a non-empty AllowList an
\* empty chain is denied.
C3_FirstEntryDecides ==
  \A c \in Conns :
    Has(c, "decide") =>
      LET x == inb[c].Header[FORWARDED_FOR_HEADER]
      IN /\ InList(FirstEntry(x)) => Has(c, "allow")
         /\ (limit # <<>> /\ ~InList(FirstEntry(x))) => Has(c, "deny")
         /\ (limit # <<>> /\ x = Empty) => Has(c, "deny")

\* C4: when the underlying transport is handed a request that came with a
\* body, the body stream it is handed is open, stands at position 0 and holds
\* the bytes the inbound body held, which are the bytes that were logged.
C4_RequestBodyReplayed ==
  \A c \in Conns :
    (Has(c, "transport_call") /\ inb[c].hasBody) =>
      /\ out[c].request.Body.pos = 0
      /\ ~out[c].request.Body.closed
      /\ ReadAll(out[c].request.Body) = [bytes |-> inb[c].Body.data, err |-> ""]
      /\ logged[c].body = inb[c].Body.data

\* a request with a non-empty body was handed to the underlying transport
C4_Witness ==
  \E c \in Conns :
    /\ Has(c, "transport_call") /\ inb[c].hasBody
    /\ inb[c].Body.data = <<"b">>
    /\ out[c].request.Body.data = <<"b">>

\* C5: once RoundTrip has returned a response the destination sent, its
\* status and headers are the destination's and its body stream yields the
\* destination's bytes from the start; the caller is sent exactly those.
C5_ResponseVerbatim ==
  \A c \in Conns :
    (Has(c, "transport_response") /\ pc[c] \in {"returned", "responded"}) =>
      /\ ~res[c].isNil /\ res[c].err = ""
      /\ res[c].StatusCode = up[c].StatusCode
      /\ res[c].Header = up[c].Header
      /\ res[c].Body.pos = 0 /\ ~res[c].Body.closed
      /\ ReadAll(res[c].Body) = [bytes |-> up[c].data, err |-> ""]
      /\ pc[c] = "responded" =>
           delivered[c] = [StatusCode |-> up[c].StatusCode, Header |-> up[c].Header,
                           body |-> up[c].data]

\* the caller was sent a destination's response with a non-empty body
C5_Witness ==
  \E c \in Conns :
    /\ pc[c] = "responded" /\ Has(c, "log_response")
    /\ up[c].data = <<"a">> /\ up[c].StatusCode = 404
    /\ delivered[c].body = <<"a">>

\* C6: after direction the request's URL is the parsed X-Cf-Forwarded-Url and
\* its Host that URL's host, while the method and every header are as
\* received; the underlying transport is handed the request with that
\* method, those headers and that URL. "http://b/p?x=1" gives host b, path
\* /p and query x=1.
C6_OnlyTargetRewritten ==
  \A c \in Conns :
    /\ Has(c, "directed") =>
         LET u == inb[c].Header[CF_FORWARDED_URL_HEADER]
         IN /\ req[c].Method = inb[c].Method
            /\ req[c].Header = inb[c].Header
            /\ req[c].URL = ParseURL(u).url
            /\ req[c].Host = req[c].URL.Host
            /\ u = AbsURL =>
                 /\ req[c].Host = <<"b">>
                 /\ req[c].URL.Path = <<"/", "p">>
                 /\ req[c].URL.RawQuery = <<"x", "=", "1">>
    /\ Has(c, "transport_call") =>
         /\ out[c].request.Method = inb[c].Method
         /\ out[c].request.Header = inb[c].Header
         /\ out[c].request.URL = req[c].URL
         /\ out[c].request.Host = req[c].Host

\* a request for "http://b/p?x=1" with a two-entry chain was handed on
C6_Witness ==
  \E c \in Conns :
    /\ Has(c, "transport_call")
    /\ inb[c].Header[CF_FORWARDED_URL_HEADER] = AbsURL
    /\ inb[c].Header[FORWARDED_FOR_HEADER] = IP1 \o <<",", " ">> \o IP2
    /\ out[c].request.Host = <<"b">>
    /\ inb[c].Host = InboundHost

\* url.Parse accepts the text and the URL has a scheme (URL.IsAbs)
ValidAbsoluteURL(u) == ParseURL(u).err = "" /\ ParseURL(u).url.Scheme # Empty

\* C7: a request whose X-Cf-Forwarded-Url is no valid absolute URL is never
\* directed and the underlying transport is never called for it.
C7_MalformedURLFails ==
  \A c \in Conns :
    (pc[c] # "idle" /\ ~ValidAbsoluteURL(inb[c].Header[CF_FORWARDED_URL_HEADER])) =>
      /\ ~Has(c, "directed")
      /\ out[c].calls = 0

\* C8: the underlying transport is called at most once for a request; when
\* it fails, RoundTrip returns no response and the transport's error as it
\* is, and no response body is read or logged.
C8_TransportErrorPropagated ==
  \A c \in Conns :
    /\ out[c].calls <= 1
    /\ Has(c, "transport_error") =>
         /\ up[c].err # ""
         /\ res[c] = [isNil |-> TRUE, StatusCode |-> 0, Header |-> <<>>,
                      Body |-> Stream(Empty, FALSE), err |-> up[c].err]
         /\ ~Has(c, "read_response") /\ ~Has(c, "log_response")
         /\ ~Has(c, "deny")

\* RoundTrip returned the error of a destination that refused the connection
C8_Witness ==
  \E c \in Conns :
    /\ pc[c] = "returned" /\ Has(c, "net_io")
    /\ res[c].isNil /\ res[c].err = "connection refused"
    /\ out[c].calls = 1

\* C9: within a cycle the body is read and the log entry (the three metadata
\* values, the headers, the body, all as received) is written before the
\* delay starts and before the URL is rewritten; the delay is over before the
\* underlying transport is called; the decision is taken before the call and
\* before any network I/O.
C9_StepOrder ==
  \A c \in Conns :
    /\ Before(c, "read_body", "log_request")
    /\ Before(c, "log_request", "sleep_begin")
    /\ Before(c, "log_request", "sleep_done")
    /\ Before(c, "log_request", "rewrite")
    /\ Before(c, "sleep_done", "transport_call")
    /\ Has(c, "sleep_begin") => Before(c, "sleep_begin", "transport_call")
    /\ Before(c, "decide", "transport_call")
    /\ Before(c, "decide", "net_io")
    /\ pc[c] = "sleeping" => (~Has(c, "rewrite") /\ out[c].calls = 0 /\ req[c].URL = inb[c].URL)
    /\ Has(c, "log_request") =>
         logged[c] = [forwardedFOR |-> inb[c].Header[FORWARDED_FOR_HEADER],
                      forwardedURL |-> inb[c].Header[CF_FORWARDED_URL_HEADER],
                      sigHeader |-> inb[c].Header[CF_PROXY_SIGNATURE_HEADER],
                      body |-> inb[c].Body.data,
                      headers |-> inb[c].Header]

\* a request with a body was held by a configured delay and then reached
\* the network
C9_Witness ==
  \E c \in Conns :
    /\ sleepMilliString = <<"2">>
    /\ Has(c, "sleep_begin") /\ Has(c, "net_io")
    /\ logged[c].body = <<"a">>

\* the steps of the trace that move the cycle from one state of the request
\* state machine to the next
PhaseTrace(c) ==
  SelectSeq(trace[c],
            LAMBDA e : e \in {"received", "directed", "deny", "transport_call", "responded"})

IsPrefix(p, q) == Len(p) <= Len(q) /\ SubSeq(q, 1, Len(p)) = p

\* C10: a cycle moves only along Received -> Directed -> Denied or Forwarded
\* -> Responded: what it has done so far is a prefix of one of the two paths,
\* so it is denied or forwarded only once directed, never both, and responded
\* only after exactly one of the two.
C10_StateMachine ==
  \A c \in Conns :
    /\ \/ IsPrefix(PhaseTrace(c), <<"received", "directed", "deny", "responded">>)
       \/ IsPrefix(PhaseTrace(c), <<"received", "directed", "transport_call", "responded">>)
    /\ pc[c] = "responded" <=> Has(c, "responded")
    /\ pc[c] = "roundtrip" <=> (Has(c, "directed") /\ ~Has(c, "decide"))

\* one cycle answered after a denial, under an AllowList that allows others
C10_Witness ==
  \E c \in Conns :
    /\ PhaseTrace(c) = <<"received", "directed", "deny", "responded">>
    /\ pc[c] = "responded" /\ InList(IP1)

\* some cycle met a failure the code answers with log.Fatalln
ProcessFailed ==
  \E c \in Conns :
    /\ trace[c] # <<>>
    /\ trace[c][Len(trace[c])] \in {"fatal_body", "fatal_sleep", "fatal_url", "fatal_response"}

\* C11: a cycle whose inbound body cannot be read, whose destination URL does
\* not parse or whose response body cannot be read gets no further than the
\* failing step, and once a cycle has failed so, no cycle takes another step
\* and no request is received.
C11_FailureEndsProcess ==
  /\ [](\A c \in Conns :
          /\ (inb[c].hasBody /\ inb[c].Body.failing) => pc[c] \in {"idle", "director"}
          /\ ParseURL(inb[c].Header[CF_FORWARDED_URL_HEADER]).err # "" =>
               pc[c] \in {"idle", "director", "sleep", "sleeping", "parse"}
          /\ pc[c] \in {"returned", "responded"} => ~res[c].Body.failing
          /\ ProcessFailed <=> ~alive)
  /\ [][~ProcessFailed]_vars

\* the process ended on an unparsable URL while the other cycle was waiting
\* for its destination, and a third request could not be received
C11_Witness ==
  /\ ~alive
  /\ Has("c1", "fatal_url") /\ pc["c2"] = "transport"
  /\ ~ENABLED NextConcurrent

\* a delay value the pipeline may be given: unset, or a number that is not
\* negative
ValidDelay(v) == v = Empty \/ (ParseInt(v).err = "" /\ ParseInt(v).val >= 0)

\* C12: a request is only ever received by a process whose delay value is
\* unset or a non-negative number, and no cycle fails in the delay step.
C12_DelayValidatedAtStartup ==
  \A c \in Conns :
    /\ pc[c] # "idle" => ValidDelay(sleepMilliString)
    /\ ~Has(c, "fatal_sleep")

\* the step a cycle stands in front of can be taken
CanStep(d) ==
  /\ pc[d] = "idle" => ENABLED (\E r \in ConcurrentRequests : Receive(d, r))
  /\ pc[d] = "director" => ENABLED DirectorBuffer(d)
  /\ pc[d] = "sleep" => ENABLED DirectorSleep(d)
  /\ pc[d] = "sleeping" => ENABLED SleepEnd(d)
  /\ pc[d] = "parse" => ENABLED DirectorRewrite(d)
  /\ pc[d] = "roundtrip" => ENABLED RoundTripDecide(d)
  /\ pc[d] = "transport" => ENABLED TransportReturn(d)
  /\ pc[d] = "readresp" => ENABLED ReadResponse(d)
  /\ pc[d] = "returned" => ENABLED Respond(d)

\* C13: while one cycle is held in its delay, every other cycle can take the
\* step it stands in front of, whichever it is, so it reaches its outcome
\* without waiting for the delayed one.
C13_DelayBlocksOnlyItsCycle ==
  \A c, d \in Conns :
    (c # d /\ alive /\ pc[c] = "sleeping") => CanStep(d)

\* a cycle that was itself delayed got the destination's response to its
\* caller while the other cycle was still held in its delay
C13_Witness ==
  /\ pc["c1"] = "sleeping"
  /\ pc["c2"] = "responded"
  /\ Has("c2", "sleep_begin") /\ Has("c2", "transport_response")

\* C14: no step changes the AllowList, which stays the list main built from
\* ACCESS_LIST; whatever the other cycle does, a decided request was denied
\* exactly when that list is non-empty and lacks the first entry of the
\* request's own X-Forwarded-For, so two decided requests with the same
\* header value have the same outcome.
C14_AllowListReadOnly ==
  /\ [][limit' = limit /\ env_limit' = env_limit]_vars
  /\ [](/\ \E dns \in Resolvers : limit = AccessList(env_limit, dns)
        /\ \A c \in Conns :
             Has(c, "decide") =>
               (Has(c, "deny") <=>
                  (limit # <<>> /\ ~InList(FirstEntry(inb[c].Header[FORWARDED_FOR_HEADER]))))
        /\ \A c, d \in Conns :
             (/\ Has(c, "decide") /\ Has(d, "decide")
              /\ inb[c].Header[FORWARDED_FOR_HEADER] = inb[d].Header[FORWARDED_FOR_HEADER])
             => (Has(c, "deny") <=> Has(d, "deny")))

\* under one list, one of two requests in flight was denied and the other,
\* from a listed address, forwarded
C14_Witness ==
  /\ Has("c1", "deny") /\ Has("c2", "allow")
  /\ inb["c1"].Header[FORWARDED_FOR_HEADER] = IP2
  /\ inb["c2"].Header[FORWARDED_FOR_HEADER] = IP1
  /\ limit = <<IP1>>

\* C15: the AllowList handed to the transport holds literal addresses only:
\* no host name and no empty token is a member of the list the claimed
\* addresses are compared with.
C15_OnlyLiteralAddresses ==
  \A i \in DOMAIN limit : isIP(limit[i]) /\ Count(limit[i], ".") = 3

\* C16: a request that received the 403 denial had its body read and logged,
\* waited out the configured delay and had its X-Cf-Forwarded-Url parsed, all
\* before the decision; and a request whose X-Cf-Forwarded-Url is no valid
\* absolute URL never reaches the denial branch.
C16_DenialAfterDirection ==
  \A c \in Conns :
    /\ Has(c, "deny") =>
         /\ Before(c, "read_body", "decide")
         /\ Before(c, "log_request", "decide")
         /\ Before(c, "sleep_done", "decide")
         /\ Has(c, "sleep_begin") => Pos(c, "sleep_begin") < Pos(c, "sleep_done")
         /\ Before(c, "directed", "decide")
         /\ logged[c].body = inb[c].Body.data
         /\ ParseURL(inb[c].Header[CF_FORWARDED_URL_HEADER]).err = ""
    /\ ~ValidAbsoluteURL(inb[c].Header[CF_FORWARDED_URL_HEADER]) => ~Has(c, "deny")

\* how far along its cycle a request is
Rank ==
  [idle |-> 0, director |-> 1, sleep |-> 2, sleeping |-> 3, parse |-> 4,
   roundtrip |-> 5, transport |-> 6, readresp |-> 7, returned |-> 8, responded |-> 9]

\* the terminal outcomes a cycle has reached
Outcomes(c) ==
  {o \in {"denied", "upstream", "error", "terminated"} :
     \/ o = "denied" /\ pc[c] = "responded" /\ Has(c, "deny")
     \/ o = "upstream" /\ pc[c] = "responded" /\ Has(c, "log_response")
     \/ o = "error" /\ pc[c] = "responded" /\ Has(c, "transport_error")
     \/ o = "terminated" /\ ~alive /\ pc[c] \notin {"idle", "responded"}}

\* C17: with every cycle scheduled fairly, a received request eventually
\* has a terminal outcome (the 403 denial, the upstream response, the
\* propagated transport error, or the end of the process) and exactly one;
\* a cycle only moves forward: no step takes it back to an earlier step and
\* no step of it is taken twice.
C17_CycleTerminates ==
  /\ \A c \in Conns :
       (pc[c] # "idle") ~> (pc[c] = "responded" \/ ~alive)
  /\ [](\A c \in Conns :
          /\ (pc[c] = "responded" \/ (~alive /\ pc[c] # "idle")) =>
               Cardinality(Outcomes(c)) = 1
          /\ (alive /\ pc[c] # "responded") => Outcomes(c) = {}
          /\ \A i, j \in 1..Len(trace[c]) : trace[c][i] = trace[c][j] => i = j)
  /\ [][\A c \in Conns :
          /\ Rank[pc'[c]] >= Rank[pc[c]]
          /\ (pc'[c] = pc[c] /\ trace'[c] # trace[c]) => ~alive']_vars

\* two cycles ended differently: one with the transport's error, the other
\* with the denial
C17_Witness ==
  /\ pc["c1"] = "responded" /\ Has("c1", "transport_error")
  /\ pc["c2"] = "responded" /\ Has("c2", "deny")
  /\ Has("c1", "sleep_begin")

====
